---- MODULE Spec2Model ----
(***************************************************************************)
(* A model of src/src/pfd.c, the rdtsc-based profiler of ccbench:          *)
(*   - pfd_store_init: (re)allocation of the per-thread store and the      *)
(*     calibration of pfd_correction (retry loop, fallbacks, sanitizing);  *)
(*   - get_abs_deviation: clipping and summary statistics;                 *)
(*   - median_non_zero_ticks and measure_minimum_tick_delta.               *)
(*                                                                         *)
(* Numbers.  `ticks' is uint64_t.  TLC's integers are 32 bits wide, so the *)
(* model keeps the shape of the type at a width TLC can hold: TICK_BITS    *)
(* bits, unsigned, wrapping modulo 2^TICK_BITS, the top bit being the sign *)
(* bit of the (int64_t) reinterpretation, and a double whose significand   *)
(* is 11 bits narrower than ticks (64 - 53 = 11 in the source).  Every     *)
(* program constant (1500, 32, 3, 10, 64) keeps its value.                 *)
(*                                                                         *)
(* Doubles.  A double is a record [nan, num, den]: NaN, or the rational    *)
(* num/den.  Sums of clipped samples (at most 1500 * 2^32) and their       *)
(* quotients are far below 2^53, so they are carried exactly; the          *)
(* integer-to-double conversions of arbitrary ticks (median, direct        *)
(* delta) round to the significand width as the hardware does.             *)
(***************************************************************************)
EXTENDS Integers, Sequences, FiniteSets, TLC

\* ------------------------------------------------------------------ bounds
\* Width of ticks in the model (64 in the source).
TICK_BITS == 24
\* Largest capacity (num_entries) whose sample arrays are enumerated in full.
MaxCap == 1
\* Number of pfd_store_init calls made on the worker.
MaxCalls == 2
\* Longest array handed to get_abs_deviation and median_non_zero_ticks directly.
MaxFnLen == 3

\* ----------------------------------------------------- program constants
PFD_CONSERVATIVE_DEFAULT == 32
PFD_CORRECTION_CONF == 3
PFD_VAL_UP_LIMIT == 1500
\* int32_t tries = 10;
INITIAL_TRIES == 10
\* measure_minimum_tick_delta(64)
DELTA_ATTEMPTS == 64
\* pfd.h (not among the sources): number of slots of a store.
PFD_NUM_STORES == 2

UINT64_MAX == 2^TICK_BITS - 1
\* (int64_t) v < 0 exactly when the top bit of v is set.
INT64_SIGN == 2^(TICK_BITS - 1)
\* Significand width of a double: 53 = 64 - 11.
DBL_MANT_DIG == TICK_BITS - 11
\* The min_val sentinel: above every ticks value.
DBL_MAX == 2^(TICK_BITS + 2)

Ticks == 0..UINT64_MAX

\* ----------------------------------------------------------------- doubles
NaN == [nan |-> TRUE, num |-> 0, den |-> 1]
Dbl(n, d) == [nan |-> FALSE, num |-> n, den |-> d]
isfinite(x) == ~x.nan

RECURSIVE BitLen(_)
BitLen(x) == IF x = 0 THEN 0 ELSE 1 + BitLen(x \div 2)

\* Round a non-negative integer to a double: nearest, ties to even, with
\* DBL_MANT_DIG significant bits.
RoundToDouble(x) ==
  IF x < 2^DBL_MANT_DIG THEN x
  ELSE LET e == BitLen(x) - DBL_MANT_DIG
           q == x \div (2^e)
           r == x % (2^e)
           half == 2^(e - 1)
       IN  IF r > half \/ (r = half /\ q % 2 = 1) THEN (q + 1) * 2^e ELSE q * 2^e

\* (double) t for a ticks value t.
TicksToDouble(t) == Dbl(RoundToDouble(t), 1)

\* x <= 0, x < 1, x >= k for a finite double x (den > 0).
DblLeZero(x) == x.num <= 0
DblLtOne(x) == x.num < x.den
DblGe(x, k) == x.num >= k * x.den

\* (ticks) (x + 0.5) for a finite double 0 <= x < (double) UINT64_MAX.
\* Below 2^(DBL_MANT_DIG-1) the sum is exact up to an error far smaller than
\* its distance to the next integer, so the cast is floor(x + 1/2).  From
\* there on x is an integer or a half-integer (a converted ticks value or a
\* median), the sum is rounded to the significand: a tie goes to the even
\* neighbour, and from 2^DBL_MANT_DIG on the 0.5 is lost altogether.
RoundHalfToTicks(x) ==
  IF x.num < 2^(DBL_MANT_DIG - 1) * x.den
    THEN (2 * x.num + x.den) \div (2 * x.den)
    ELSE LET twice == (2 * x.num) \div x.den     \* 2x, an integer
             sum2 == twice + 1                   \* 2 (x + 0.5)
         IN  IF twice >= 2^(DBL_MANT_DIG + 1)
               THEN twice \div 2
               ELSE IF sum2 % 2 = 0
                      THEN sum2 \div 2
                      ELSE LET fl == (sum2 - 1) \div 2
                           IN  IF fl % 2 = 0 THEN fl ELSE fl + 1

\* n / (double) d as the callers below use it: the numerator is 0 whenever
\* the divisor is 0, so the only non-finite quotient is 0/0 = NaN.
DivDbl(n, d) == IF d = 0 THEN NaN ELSE Dbl(n, d)

Abs(x) == IF x >= 0 THEN x ELSE -x

\* ------------------------------------------------------ get_abs_deviation
\* if ((int64_t) vals[i] < 0 || vals[i] > PFD_VAL_UP_LIMIT) vals[i] = 0;
ClipTickOffByOne(v) == IF v >= INT64_SIGN \/ v >= PFD_VAL_UP_LIMIT THEN 0 ELSE v
ClipTick(v) == IF v >= INT64_SIGN \/ v > PFD_VAL_UP_LIMIT THEN 0 ELSE v

\* The array after the first loop: the first num_vals entries clipped.
ClipVals(vals, num_vals) ==
  [i \in 1..Len(vals) |-> IF i <= num_vals THEN ClipTick(vals[i]) ELSE vals[i]]

\* sum_vals over the first k (clipped) entries; at most 1500 * 2^32, so the
\* ticks accumulator never wraps.
RECURSIVE SumValsFromSecond(_, _)
SumValsFromSecond(vals, k) ==
  IF k <= 1 THEN 0 ELSE SumValsFromSecond(vals, k - 1) + vals[k]
RECURSIVE SumVals(_, _)
SumVals(vals, k) == IF k = 0 THEN 0 ELSE SumVals(vals, k - 1) + vals[k]

RECURSIVE SumSquares(_, _)
SumSquares(vals, k) == IF k = 0 THEN 0 ELSE SumSquares(vals, k - 1) + vals[k] * vals[k]

\* One iteration of the max/min tracking (index i is 0-based as in the code).
ExtremeStepIndependent(e, v, i) ==
  LET f == IF v > e.max_val THEN [e EXCEPT !.max_val = v, !.max_val_idx = i] ELSE e
  IN  IF v < f.min_val THEN [f EXCEPT !.min_val = v, !.min_val_idx = i] ELSE f
ExtremeStep(e, v, i) ==
  IF v > e.max_val
    THEN [e EXCEPT !.max_val = v, !.max_val_idx = i]
    ELSE IF v < e.min_val
           THEN [e EXCEPT !.min_val = v, !.min_val_idx = i]
           ELSE e

\* The extremes after the first k samples (the previous state e is bound as
\* a value, so that it is computed once).
RECURSIVE TrackExtremes(_, _)
TrackExtremes(vals, k) ==
  IF k = 0
    THEN [max_val |-> 0, max_val_idx |-> 0, min_val |-> DBL_MAX, min_val_idx |-> 0]
    ELSE CHOOSE r \in {ExtremeStep(e, vals[k], k - 1) :
                         e \in {TrackExtremes(vals, k - 1)}} : TRUE

\* One iteration of the band classification.  With avg = sum/n, ad = |v - avg|
\* and dev_Xp = X * avg, the test ad <= dev_Xp is |n v - sum| <= X * sum.
BandStepDropsTail(b, v, sum, n) ==
  LET ad == Abs(n * v - sum)
  IN  IF 10 * ad <= sum
        THEN [b EXCEPT !.num_dev_10p = @ + 1, !.sum_vals_10p = @ + v]
        ELSE IF 4 * ad <= sum
          THEN [b EXCEPT !.num_dev_25p = @ + 1, !.sum_vals_25p = @ + v]
          ELSE IF 2 * ad <= sum
            THEN [b EXCEPT !.num_dev_50p = @ + 1, !.sum_vals_50p = @ + v]
            ELSE IF 4 * ad <= 3 * sum
              THEN [b EXCEPT !.num_dev_75p = @ + 1, !.sum_vals_75p = @ + v]
              ELSE IF ad <= sum
                THEN [b EXCEPT !.num_dev_rst = @ + 1, !.sum_vals_rst = @ + v]
                ELSE b
BandStep(b, v, sum, n) ==
  LET ad == Abs(n * v - sum)
  IN  IF 10 * ad <= sum
        THEN [b EXCEPT !.num_dev_10p = @ + 1, !.sum_vals_10p = @ + v]
        ELSE IF 4 * ad <= sum
          THEN [b EXCEPT !.num_dev_25p = @ + 1, !.sum_vals_25p = @ + v]
          ELSE IF 2 * ad <= sum
            THEN [b EXCEPT !.num_dev_50p = @ + 1, !.sum_vals_50p = @ + v]
            ELSE IF 4 * ad <= 3 * sum
              THEN [b EXCEPT !.num_dev_75p = @ + 1, !.sum_vals_75p = @ + v]
              ELSE [b EXCEPT !.num_dev_rst = @ + 1, !.sum_vals_rst = @ + v]

RECURSIVE Bands(_, _, _, _)
Bands(vals, k, sum, n) ==
  IF k = 0
    THEN [num_dev_10p |-> 0, sum_vals_10p |-> 0, num_dev_25p |-> 0, sum_vals_25p |-> 0,
          num_dev_50p |-> 0, sum_vals_50p |-> 0, num_dev_75p |-> 0, sum_vals_75p |-> 0,
          num_dev_rst |-> 0, sum_vals_rst |-> 0]
    ELSE BandStep(Bands(vals, k - 1, sum, n), vals[k], sum, n)

\* sum_adev = sum of |v - avg| = (sum of |n v - sum|) / n.
RECURSIVE SumAbsDev(_, _, _, _)
SumAbsDev(vals, k, sum, n) ==
  IF k = 0 THEN 0 ELSE SumAbsDev(vals, k - 1, sum, n) + Abs(n * vals[k] - sum)

\* The summary get_abs_deviation writes to *abs_dev, computed on the clipped
\* array cv.  std_dev is kept as its square (variance): with
\* sum_stdev = sum of (v - avg)^2 = (n * sumsq - sum^2) / n the variance is
\* (n * sumsq - sum^2) / n^2.  The per-band deviations of the second pass are
\* not part of the record kept here.  The locals sum (sum_vals), e (the
\* extremes) and b (the band counters) are bound as values, each computed once.
AbsDeviation(cv, num_vals) ==
  CHOOSE r \in
    {CHOOSE q \in
       {[num_vals |-> num_vals,
         avg |-> DivDbl(sum, num_vals),
         abs_dev |-> DivDbl(SumAbsDev(cv, num_vals, sum, num_vals), num_vals * num_vals),
         variance |-> DivDbl(num_vals * SumSquares(cv, num_vals) - sum * sum,
                             num_vals * num_vals),
         min_val |-> e.min_val, min_val_idx |-> e.min_val_idx,
         max_val |-> e.max_val, max_val_idx |-> e.max_val_idx,
         num_dev_10p |-> b.num_dev_10p, num_dev_25p |-> b.num_dev_25p,
         num_dev_50p |-> b.num_dev_50p, num_dev_75p |-> b.num_dev_75p,
         num_dev_rst |-> b.num_dev_rst,
         avg_10p |-> DivDbl(b.sum_vals_10p, b.num_dev_10p),
         avg_25p |-> DivDbl(b.sum_vals_25p, b.num_dev_25p),
         avg_50p |-> DivDbl(b.sum_vals_50p, b.num_dev_50p),
         avg_75p |-> DivDbl(b.sum_vals_75p, b.num_dev_75p),
         avg_rst |-> DivDbl(b.sum_vals_rst, b.num_dev_rst)] :
        b \in {Bands(cv, num_vals, sum, num_vals)}} : TRUE :
     sum \in {SumVals(cv, num_vals)}, e \in {TrackExtremes(cv, num_vals)}} : TRUE

\* get_abs_deviation(vals, num_vals, &ad): the array as it is left, and ad.
get_abs_deviation(vals, num_vals) ==
  CHOOSE r \in {[vals |-> cv, ad |-> AbsDeviation(cv, num_vals)] :
                  cv \in {ClipVals(vals, num_vals)}} : TRUE

\* -------------------------------------------------- median_non_zero_ticks
ticks_compare(a, b) == IF a < b THEN -1 ELSE IF a > b THEN 1 ELSE 0

\* scratch after the copy loop: the non-zero ones of the first k entries.
RECURSIVE CopyNonZero(_, _)
CopyNonZero(samples, k) ==
  IF k = 0 THEN << >>
  ELSE IF samples[k] = 0
         THEN CopyNonZero(samples, k - 1)
         ELSE Append(CopyNonZero(samples, k - 1), samples[k])

\* The median of the sorted scratch array (1-based here, 0-based in the code).
MedianOfSortedLowerMiddle(scratch) ==
  LET count == Len(scratch)
  IN  TicksToDouble(scratch[(count + 1) \div 2])
MedianOfSorted(scratch) ==
  LET count == Len(scratch)
  IN  IF count % 2 = 0
        THEN Dbl(RoundToDouble(RoundToDouble(scratch[count \div 2])
                               + RoundToDouble(scratch[count \div 2 + 1])), 2)
        ELSE TicksToDouble(scratch[count \div 2 + 1])

\* malloc_ok: whether malloc(num_entries * sizeof(ticks)) returned memory.
median_non_zero_ticks(samples, num_entries, malloc_ok) ==
  IF num_entries = 0 THEN NaN
  ELSE IF ~malloc_ok THEN NaN
  ELSE LET scratch == CopyNonZero(samples, num_entries)
       IN  IF Len(scratch) = 0
             THEN NaN
             ELSE MedianOfSorted(SortSeq(scratch, LAMBDA a, b : ticks_compare(a, b) < 0))

\* ---------------------------------------------- measure_minimum_tick_delta
\* ticks delta = end - start, in unsigned arithmetic.
TickDelta(start, end) == (end - start) % (2^TICK_BITS)

\* The body of the loop: best after an attempt that read <<start, end>>.
AttemptTakesZero(best, read) ==
  LET delta == TickDelta(read[1], read[2])
  IN  IF delta < best THEN delta ELSE best
Attempt(best, read) ==
  LET delta == TickDelta(read[1], read[2])
  IN  IF delta > 0 /\ delta < best THEN delta ELSE best

\* best after attempts lo..hi in order, starting from best: the loop, split
\* in halves.  The result of the first half is bound as a value (first)
\* before the second half starts from it, so that it is computed once.
RECURSIVE BestDelta(_, _, _, _)
BestDelta(reads, lo, hi, best) ==
  IF lo > hi THEN best
  ELSE IF lo = hi THEN Attempt(best, reads[lo])
  ELSE LET mid == (lo + hi) \div 2
       IN  CHOOSE r \in {BestDelta(reads, mid + 1, hi, first) :
                           first \in {BestDelta(reads, lo, mid, best)}} : TRUE

measure_minimum_tick_delta(reads, attempts) ==
  LET best == BestDelta(reads, 1, attempts, UINT64_MAX)
  IN  IF best = UINT64_MAX THEN 0 ELSE best

\* ------------------------------------------------------------------ state
VARIABLES
  pc,              \* where the worker is: "idle", inside pfd_store_init
                   \* ("retry", "measured", "sanitize", "guard"), "done", or
                   \* terminated by a failed assert ("abort_alloc", "abort_correction")
  heap,            \* the allocator: block id -> [kind, size, frees, cells]
  pfd_store,       \* THREAD_LOCAL ticks** pfd_store (a block id, or NULL)
  pfd_s,           \* THREAD_LOCAL ticks* _pfd_s (a block id, or NULL)
  pfd_correction,  \* THREAD_LOCAL ticks pfd_correction
  num_entries,     \* the argument of the running pfd_store_init
  tries,           \* int32_t tries
  print_warning,   \* uint32_t print_warning
  ad_avg,          \* ad.avg
  std_pp,          \* double std_pp: [nan, d, s] stands for 100 * sqrt(d) / s
  corrected_avg,   \* double corrected_avg
  out,             \* standard output: the diagnostics printed by the running call
  rounds,          \* history: measurement rounds of the running call
  calls,           \* history: pfd_store_init calls started
  all_zero,        \* history: every sample measured in the running call was 0
  reads,           \* history: the counter reads of the call's direct measurement
  fn_pc,           \* function harness: "input", "analyzed" or "median"
  fn_in,           \* function harness: the array as passed in
  fn_count,        \* function harness: num_vals / num_entries
  fn_vals,         \* function harness: the array after the call
  fn_ad,           \* function harness: *abs_dev
  fn_med,          \* function harness: the returned median
  fn_malloc_ok,    \* function harness: whether the scratch malloc succeeded
  self,            \* the worker whose thread is running ("main" when there is one)
  ctx,             \* the thread-local variables and locals of the workers that
                   \* are not running, by worker
  sw_script,       \* sweep: the script being run
  sw_env,          \* sweep: the environment the script was started in
  sw_pc,           \* sweep: "off", "start", "loop", "end" (loop finished), "exit"
  sw_src,          \* sweep: loop variable src
  sw_dst,          \* sweep: loop variable dst
  sw_run,          \* sweep: the benchmark invocation of the last iteration
  sw_row,          \* sweep: the last row written to standard output
  sw_nrows,        \* sweep: number of rows written after the header
  sw_log,          \* sweep: what the last iteration wrote to standard error
  sw_made,         \* sweep: number of times `make' was run
  sw_status        \* sweep: exit status of the script (running: -1)

store_vars == <<pc, heap, pfd_store, pfd_s, pfd_correction, num_entries, tries,
                print_warning, ad_avg, std_pp, corrected_avg, out, rounds, calls,
                all_zero, reads>>
fn_vars == <<fn_pc, fn_in, fn_count, fn_vals, fn_ad, fn_med, fn_malloc_ok>>
mt_vars == <<self, ctx>>
sw_vars == <<sw_script, sw_env, sw_pc, sw_src, sw_dst, sw_run, sw_row, sw_nrows,
             sw_log, sw_made, sw_status>>
vars == <<pc, heap, pfd_store, pfd_s, pfd_correction, num_entries, tries,
          print_warning, ad_avg, std_pp, corrected_avg, out, rounds, calls,
          all_zero, reads, fn_pc, fn_in, fn_count, fn_vals, fn_ad, fn_med,
          fn_malloc_ok, self, ctx, sw_script, sw_env, sw_pc, sw_src, sw_dst,
          sw_run, sw_row, sw_nrows, sw_log, sw_made, sw_status>>

NULL == 0
\* The content of memory malloc returned and nothing has written yet.
UNINIT == -1

\* ------------------------------------------------------------------- inputs
\* Counter deltas a measurement round can store: zero, small, near-equal
\* pairs, just above the clipping limit, and negative as int64_t.
CalVals == {0, 1, 100, 101, PFD_VAL_UP_LIMIT + 1, INT64_SIGN + 5}

\* The first end-to-end scenario of the specification (capacity 10).
C3Samples == <<20, 20, 20, 20, 20, 20, 20, 20, 21, 19>>
\* A round that fails the gate, two of its samples above the clipping limit
\* and the two middle ones of the others different.
NoisySamples == <<PFD_VAL_UP_LIMIT + 1, 1000, 20, 20, 20, 20, 21, 21, 21, PFD_VAL_UP_LIMIT + 1>>
ScenarioRounds ==
  {C3Samples, [i \in 1..10 |-> 0], [i \in 1..10 |-> IF i = 1 THEN 1000 ELSE 20],
   NoisySamples}
ScenarioCap == Len(C3Samples)

Capacities == (0..MaxCap) \cup {ScenarioCap}
Rounds(n) ==
  IF n <= MaxCap THEN [1..n -> CalVals] ELSE {r \in ScenarioRounds : Len(r) = n}

\* <<start, end>> of one attempt of the direct measurement: the counter
\* standing still, advancing by 1 and by 7, running backwards, and a delta
\* that is not a double.
TimerPairs ==
  {<<3, 3>>, <<3, 4>>, <<3, 10>>, <<4, 3>>, <<5, 3>>, <<0, 2^DBL_MANT_DIG + 1>>}
TimerRuns ==
  {[i \in 1..DELTA_ATTEMPTS |-> IF i % 2 = 1 THEN p ELSE q] : p, q \in TimerPairs}

\* --------------------------------------------------------------- allocator
Block(kind, size) ==
  [kind |-> kind, size |-> size, frees |-> 0, cells |-> [i \in 1..size |-> UNINIT]]
\* malloc: the new block's id is Len of the heap it returns.
Malloc(h, kind, size) == Append(h, Block(kind, size))
\* free(p); free(NULL) does nothing.
Free(h, p) ==
  IF p = NULL THEN h
  ELSE [h EXCEPT ![p].frees = @ + 1, ![p].size = 0, ![p].cells = << >>]

\* for (i = 0; i < PFD_NUM_STORES; i++) { free(pfd_store[i]); pfd_store[i] = NULL; }
RECURSIVE FreeSlots(_, _, _)
FreeSlots(h, table, k) ==
  IF k = 0 THEN h
  ELSE LET g == FreeSlots(h, table, k - 1)
       IN  [Free(g, g[table].cells[k]) EXCEPT ![table].cells[k] = NULL]

\* Lines 138-150: release what the previous call allocated.
ReleaseKeepsSlots(h, table, start) ==
  Free(IF table # NULL THEN Free(h, table) ELSE h, start)
ReleaseStore(h, table, start) ==
  Free(IF table # NULL THEN Free(FreeSlots(h, table, PFD_NUM_STORES), table) ELSE h,
       start)

\* Lines 157-162: the first k slot arrays; oom is the number of the malloc
\* call that returns NULL (0: none; the slot of index i is call 3 + i).
RECURSIVE AllocSlots(_, _, _, _, _)
AllocSlots(h, table, k, n, oom) ==
  IF k = 0 THEN [heap |-> h, ok |-> TRUE]
  ELSE LET r == AllocSlots(h, table, k - 1, n, oom)
       IN  IF ~r.ok THEN r
           ELSE IF oom = 2 + k THEN [heap |-> r.heap, ok |-> FALSE]
           ELSE LET g == Malloc(r.heap, "slot", n)
                IN  [heap |-> [g EXCEPT ![table].cells[k] = Len(g)], ok |-> TRUE]

\* pfd_store[0] of the running call, and its cells.
Slot0 == heap[pfd_store].cells[1]
Slot0Vals == heap[Slot0].cells

\* ------------------------------------------------------------- diagnostics
\* One printf: its text (by name), whether it begins "* warning:", and the
\* value it prints as the one being used (NaN when it prints none).
Line(msg, warning, val) == [msg |-> msg, warning |-> warning, val |-> val]
ConservativeDbl == Dbl(PFD_CONSERVATIVE_DEFAULT, 1)

\* ---------------------------------------------------------- pfd_store_init
\* Lines 136-177: release the previous store, allocate the new one, reset the
\* locals and pfd_correction.  A malloc returning NULL fails an assert.
InitAlloc(n, oom) ==
  /\ pc \in {"idle", "done"}
  /\ calls < MaxCalls
  /\ num_entries' = n
  /\ \E h1 \in {ReleaseStore(heap, pfd_store, pfd_s)} :
     \E h2 \in {IF oom = 1 THEN h1 ELSE Malloc(h1, "start_ticks", PFD_NUM_STORES)} :
     \E h3 \in {IF oom = 2 THEN h2 ELSE Malloc(h2, "table", PFD_NUM_STORES)} :
       LET s == IF oom = 1 THEN NULL ELSE Len(h2)
           t == IF oom = 2 THEN NULL ELSE Len(h3)
       IN  \E r \in {IF s # NULL /\ t # NULL
                       THEN AllocSlots(h3, t, PFD_NUM_STORES, n, oom)
                       ELSE [heap |-> h3, ok |-> FALSE]} :
             /\ heap' = r.heap
             /\ pfd_s' = s
             /\ pfd_store' = t
             /\ pc' = IF r.ok THEN "retry" ELSE "abort_alloc"
  /\ tries' = INITIAL_TRIES
  /\ print_warning' = 0
  /\ pfd_correction' = 0
  /\ ad_avg' = NaN
  /\ std_pp' = [nan |-> TRUE, d |-> 0, s |-> 1]
  /\ corrected_avg' = NaN
  /\ out' = << >>
  /\ rounds' = 0
  /\ calls' = calls + 1
  /\ all_zero' = TRUE
  /\ reads' = << >>
  /\ UNCHANGED <<fn_vars, mt_vars, sw_vars>>

\* Lines 180-186, the label retry: one measurement round stores a counter
\* delta in every entry of pfd_store[0] (PFDI/PFDO of pfd.h; pfd_correction
\* is 0 here, so the delta is stored as read).
MeasureRound(samples) ==
  /\ pc = "retry"
  /\ heap' = [heap EXCEPT ![Slot0].cells = samples]
  /\ rounds' = rounds + 1
  /\ all_zero' = (all_zero /\ \A i \in 1..Len(samples) : samples[i] = 0)
  /\ pc' = "measured"
  /\ UNCHANGED <<pfd_store, pfd_s, pfd_correction, num_entries, tries, print_warning,
                 ad_avg, std_pp, corrected_avg, out, calls, reads>>
  /\ UNCHANGED <<fn_vars, mt_vars, sw_vars>>

\* Lines 190-194: std_pp = 100 * (1 - (avg - std_dev) / avg) = 100 * std_dev / avg
\* when avg is finite and not 0, else NaN.  With avg = sum/n and
\* std_dev = sqrt(n * sumsq - sum^2) / n this is 100 * sqrt(d) / s for
\* d = variance.num = n * sumsq - sum^2 and s = avg.num = sum.
StdPP(ad) ==
  IF isfinite(ad.avg) /\ ad.avg.num # 0
    THEN [nan |-> FALSE, d |-> ad.variance.num, s |-> ad.avg.num]
    ELSE [nan |-> TRUE, d |-> 0, s |-> 1]

\* Line 196: std_pp > conf; false for NaN.  For s > 0,
\* 100 sqrt(d) / s > conf  iff  10000 d > conf^2 s^2  iff  d > (conf^2 s^2) div 10000.
StdPPGreaterOrNaN(spp, conf) ==
  \/ spp.nan
  \/ spp.d > (conf * conf * spp.s * spp.s) \div 10000
StdPPGreaterInverted(spp, conf) ==
  /\ ~spp.nan
  /\ ~(spp.d > (conf * conf * spp.s * spp.s) \div 10000)
StdPPGreater(spp, conf) ==
  /\ ~spp.nan
  /\ spp.d > (conf * conf * spp.s * spp.s) \div 10000

\* Line 204: tries-- > 0, on the value before the decrement.
TriesLeftOffByOne(t) == t >= 0
TriesLeft(t) == t > 0

\* Lines 188-189 on the round just measured.
RoundAnalysis == get_abs_deviation(Slot0Vals, num_entries)

\* Lines 198-203: the diagnostic of the second failed attempt.
RecalcLines == IF print_warning = 1 THEN <<Line("recalculating", TRUE, NaN)>> ELSE << >>

\* Lines 188-196, the round is accepted: std_pp > PFD_CORRECTION_CONF is false.
GateAccept ==
  /\ pc = "measured"
  /\ \E r \in {RoundAnalysis} :
         /\ ~StdPPGreater(StdPP(r.ad), PFD_CORRECTION_CONF)
         /\ heap' = [heap EXCEPT ![Slot0].cells = r.vals]
         /\ ad_avg' = r.ad.avg
         /\ std_pp' = StdPP(r.ad)
  /\ pc' = "sanitize"
  /\ UNCHANGED <<pfd_store, pfd_s, pfd_correction, num_entries, tries, print_warning,
                 corrected_avg, out, rounds, calls, all_zero, reads>>
  /\ UNCHANGED <<fn_vars, mt_vars, sw_vars>>

\* Lines 196-207, the round fails and tries-- > 0: goto retry.
GateRetry ==
  /\ pc = "measured"
  /\ \E r \in {RoundAnalysis} :
         /\ StdPPGreater(StdPP(r.ad), PFD_CORRECTION_CONF)
         /\ heap' = [heap EXCEPT ![Slot0].cells = r.vals]
         /\ ad_avg' = r.ad.avg
         /\ std_pp' = StdPP(r.ad)
  /\ TriesLeft(tries)
  /\ out' = out \o RecalcLines
  /\ print_warning' = print_warning + 1
  /\ tries' = tries - 1
  /\ pc' = "retry"
  /\ UNCHANGED <<pfd_store, pfd_s, pfd_correction, num_entries, corrected_avg,
                 rounds, calls, all_zero, reads>>
  /\ UNCHANGED <<fn_vars, mt_vars, sw_vars>>

\* Lines 196-245, the round fails and the tries are used up: the median of
\* the non-zero samples, or the constant of the architecture (none of the
\* architecture macros defined: the #else branch).
GateExhausted(malloc_ok) ==
  /\ pc = "measured"
  /\ \E r \in {RoundAnalysis} :
     LET manual_avg == median_non_zero_ticks(r.vals, num_entries, malloc_ok)
         cells == [heap EXCEPT ![Slot0].cells = r.vals]
         use_median == isfinite(manual_avg) /\ manual_avg.num > 0
     IN  /\ StdPPGreater(StdPP(r.ad), PFD_CORRECTION_CONF)
         /\ heap' = IF num_entries > 0 /\ malloc_ok
                      THEN LET g == Malloc(cells, "scratch", num_entries)
                           IN  Free(g, Len(g))
                      ELSE cells
         /\ std_pp' = StdPP(r.ad)
         /\ ad_avg' = IF use_median THEN manual_avg ELSE ConservativeDbl
         /\ out' = out \o RecalcLines \o <<Line("setting manually", TRUE, NaN)>>
                     \o IF use_median
                          THEN <<Line("using median", TRUE, manual_avg)>>
                          ELSE <<Line("unknown architecture", TRUE, ConservativeDbl)>>
  /\ ~TriesLeft(tries)
  /\ print_warning' = print_warning + 1
  /\ tries' = tries - 1
  /\ pc' = "sanitize"
  /\ UNCHANGED <<pfd_store, pfd_s, pfd_correction, num_entries, corrected_avg,
                 rounds, calls, all_zero, reads>>
  /\ UNCHANGED <<fn_vars, mt_vars, sw_vars>>

\* Lines 250-290: corrected_avg made finite and at least 1.  run holds the
\* counter reads of measure_minimum_tick_delta(64), consulted only when the
\* average is finite and <= 0; measured is the value the call returned.
NeedsDirectDelta(avg) == isfinite(avg) /\ DblLeZero(avg)
SanitizeAvg(avg, run) ==
  IF ~isfinite(avg)
    THEN [avg |-> ConservativeDbl,
          lines |-> <<Line("non-finite; conservative default", TRUE, ConservativeDbl)>>]
  ELSE IF DblLeZero(avg)
    THEN CHOOSE r \in
           {IF measured > 0
              THEN [avg |-> TicksToDouble(measured),
                    lines |-> <<Line("<= 0; direct rdtsc delta", TRUE, Dbl(measured, 1))>>]
              ELSE [avg |-> ConservativeDbl,
                    lines |-> <<Line("<= 0; conservative default", TRUE, ConservativeDbl)>>] :
            measured \in {measure_minimum_tick_delta(run, DELTA_ATTEMPTS)}} : TRUE
  ELSE IF DblLtOne(avg)
    THEN [avg |-> Dbl(1, 1), lines |-> <<Line("< 1; clamping", TRUE, Dbl(1, 1))>>]
  ELSE [avg |-> avg, lines |-> << >>]

\* Lines 292-314: the conversion to ticks, clamped to [1, UINT64_MAX].
ToCorrection(cavg) ==
  IF DblGe(cavg, RoundToDouble(UINT64_MAX))
    THEN [correction |-> UINT64_MAX, avg |-> TicksToDouble(UINT64_MAX),
          lines |-> <<Line(">= UINT64_MAX; clamping", TRUE, Dbl(UINT64_MAX, 1))>>]
    ELSE LET c == RoundHalfToTicks(cavg)
         IN  IF c = 0
               THEN [correction |-> 1, avg |-> Dbl(1, 1),
                     lines |-> <<Line("rounded to 0; clamping", TRUE, Dbl(1, 1))>>]
               ELSE [correction |-> c, avg |-> cavg, lines |-> << >>]

\* Lines 316-327: ad.avg still holds the average from before the sanitizing;
\* when it is <= 0 the same text as line 278 is printed, and the value this
\* block stores in ad.avg is overwritten by line 329.
StaleLines(avg) ==
  IF isfinite(avg) /\ DblLeZero(avg)
    THEN <<Line("<= 0; conservative default", TRUE, ConservativeDbl)>>
    ELSE << >>

\* Lines 247-330: the value assigned to pfd_correction at line 330.
Correction(avg, run) ==
  CHOOSE r \in
    {LET c == ToCorrection(a.avg)
     IN  [pfd_correction |-> c.correction, corrected_avg |-> c.avg,
          lines |-> a.lines \o c.lines \o StaleLines(avg)] :
     a \in {SanitizeAvg(avg, run)}} : TRUE

\* Lines 331-365: a correction that is still 0 is replaced by a second direct
\* measurement (run2) or by the conservative constant.
EnforcePositive(c, run2) ==
  IF c.pfd_correction <= 0
    THEN CHOOSE r \in
           {IF measured > 0
              THEN [pfd_correction |-> measured, corrected_avg |-> TicksToDouble(measured),
                    enforced |-> TRUE,
                    lines |-> c.lines \o
                      <<Line("enforcing positive; direct rdtsc delta", TRUE, Dbl(measured, 1))>>]
              ELSE [pfd_correction |-> RoundHalfToTicks(ConservativeDbl),
                    corrected_avg |-> ConservativeDbl,
                    enforced |-> TRUE,
                    lines |-> c.lines \o
                      <<Line("falling back to conservative", TRUE, ConservativeDbl)>>] :
            measured \in {measure_minimum_tick_delta(run2, DELTA_ATTEMPTS)}} : TRUE
    ELSE [pfd_correction |-> c.pfd_correction, corrected_avg |-> c.corrected_avg,
          enforced |-> FALSE, lines |-> c.lines]

\* The calibration without its fallback chain: pfd_correction = ad.avg, a
\* conversion that truncates (and gives 0 here for NaN).
CalibrateUnguarded(avg, run, run2) ==
  [pfd_correction |-> IF isfinite(avg) THEN avg.num \div avg.den ELSE 0,
   corrected_avg |-> avg, enforced |-> FALSE, lines |-> << >>]
\* Lines 247-366.
Calibrate(avg, run, run2) ==
  CHOOSE r \in {EnforcePositive(c, run2) : c \in {Correction(avg, run)}} : TRUE

\* Lines 247-371: sanitize the average, set pfd_correction, assert it is
\* positive and print the summary.
Sanitize ==
  /\ pc = "sanitize"
  /\ \E run \in IF NeedsDirectDelta(ad_avg) THEN TimerRuns ELSE {<< >>} :
       /\ reads' = run
       /\ \E run2 \in IF Correction(ad_avg, run).pfd_correction <= 0
                        THEN TimerRuns ELSE {<< >>} :
           \E c \in {Calibrate(ad_avg, run, run2)} :
             /\ pfd_correction' = c.pfd_correction
             /\ corrected_avg' = c.corrected_avg
             /\ ad_avg' = c.corrected_avg
             /\ std_pp' = IF c.enforced /\ std_pp.nan
                            THEN [nan |-> FALSE, d |-> 0, s |-> 1] ELSE std_pp
             /\ IF c.pfd_correction > 0
                  THEN /\ pc' = "done"
                       /\ out' = out \o c.lines \o
                            <<Line("set pfd correction", FALSE, Dbl(c.pfd_correction, 1))>>
                  ELSE /\ pc' = "abort_correction"
                       /\ out' = out \o c.lines
  /\ UNCHANGED <<heap, pfd_store, pfd_s, num_entries, tries, print_warning, rounds,
                 calls, all_zero>>
  /\ UNCHANGED <<fn_vars, mt_vars, sw_vars>>

\* ------------------------------------------------------- the worker's store
NoFn ==
  /\ fn_pc = "off" /\ fn_in = << >> /\ fn_count = 0 /\ fn_vals = << >>
  /\ fn_ad = NaN /\ fn_med = NaN /\ fn_malloc_ok = TRUE

\* One worker: its thread is the only one.
OneWorker == self = "main" /\ ctx = << >>

\* No sweep script is running.
NoRow == [src |-> -1, dst |-> -1, stats |-> << >>]
NoRun == [status |-> -1, output |-> << >>]
NoSweep ==
  /\ sw_script = "none" /\ sw_env = << >> /\ sw_pc = "off" /\ sw_src = 0 /\ sw_dst = 0
  /\ sw_run = NoRun /\ sw_row = NoRow /\ sw_nrows = 0 /\ sw_log = << >>
  /\ sw_made = 0 /\ sw_status = -1

\* Thread start: the thread-local pointers and pfd_correction are zero.
Init ==
  /\ pc = "idle"
  /\ heap = << >>
  /\ pfd_store = NULL
  /\ pfd_s = NULL
  /\ pfd_correction = 0
  /\ num_entries = 0
  /\ tries = 0
  /\ print_warning = 0
  /\ ad_avg = NaN
  /\ std_pp = [nan |-> TRUE, d |-> 0, s |-> 1]
  /\ corrected_avg = NaN
  /\ out = << >>
  /\ rounds = 0
  /\ calls = 0
  /\ all_zero = TRUE
  /\ reads = << >>
  /\ NoFn
  /\ OneWorker
  /\ NoSweep

Next ==
  \/ \E n \in Capacities : \E oom \in 0..(2 + PFD_NUM_STORES) : InitAlloc(n, oom)
  \/ \E samples \in Rounds(num_entries) : MeasureRound(samples)
  \/ GateAccept
  \/ GateRetry
  \/ \E malloc_ok \in BOOLEAN : GateExhausted(malloc_ok)
  \/ Sanitize

Spec == Init /\ [][Next]_vars

\* pfd_store_init is straight-line code around a bounded loop: a call that
\* has started keeps taking steps.
FairSpec == Spec /\ WF_vars(Next)

\* ------------------------------------------------- the functions on their own
\* get_abs_deviation (public) and median_non_zero_ticks applied to arbitrary
\* arrays: entries at the clipping limit and just above it, negative as
\* int64_t, and not representable as a double.
FnVals == {0, 1, 2, 3, PFD_VAL_UP_LIMIT, PFD_VAL_UP_LIMIT + 1, 2^DBL_MANT_DIG + 1, UINT64_MAX}
MedianExample == <<0, 0, 5, 0, 3>>
FnArrays == UNION {[1..n -> FnVals] : n \in 0..MaxFnLen} \cup {MedianExample}

IdleStore ==
  /\ pc = "idle" /\ heap = << >> /\ pfd_store = NULL /\ pfd_s = NULL
  /\ pfd_correction = 0 /\ num_entries = 0 /\ tries = 0 /\ print_warning = 0
  /\ ad_avg = NaN /\ std_pp = [nan |-> TRUE, d |-> 0, s |-> 1] /\ corrected_avg = NaN
  /\ out = << >> /\ rounds = 0 /\ calls = 0 /\ all_zero = TRUE /\ reads = << >>

FnInit ==
  /\ IdleStore
  /\ fn_pc = "input"
  /\ fn_in \in FnArrays
  /\ fn_count \in 0..Len(fn_in)
  /\ fn_vals = fn_in
  /\ fn_ad = NaN
  /\ fn_med = NaN
  /\ fn_malloc_ok = TRUE
  /\ OneWorker
  /\ NoSweep

\* get_abs_deviation(vals, num_vals, &ad)
CallGetAbsDeviation ==
  /\ fn_pc = "input"
  /\ LET r == get_abs_deviation(fn_vals, fn_count)
     IN  /\ fn_vals' = r.vals
         /\ fn_ad' = r.ad
  /\ fn_pc' = "analyzed"
  /\ UNCHANGED <<fn_in, fn_count, fn_med, fn_malloc_ok>>
  /\ UNCHANGED <<store_vars, mt_vars, sw_vars>>

\* median_non_zero_ticks(samples, num_entries); samples is const.
CallMedian(malloc_ok) ==
  /\ fn_pc = "input"
  /\ fn_med' = median_non_zero_ticks(fn_vals, fn_count, malloc_ok)
  /\ fn_malloc_ok' = malloc_ok
  /\ fn_pc' = "median"
  /\ UNCHANGED <<fn_in, fn_count, fn_vals, fn_ad>>
  /\ UNCHANGED <<store_vars, mt_vars, sw_vars>>

FnNext ==
  \/ CallGetAbsDeviation
  \/ \E malloc_ok \in BOOLEAN : CallMedian(malloc_ok)

SpecFn == FnInit /\ [][FnNext]_vars

\* ====================================================== several workers
\* Each worker is a thread calling pfd_store_init and recording into its own
\* store.  One thread runs at a time; Switch hands the processor to another.
\* The locals of pfd_store_init live on the thread's stack; pfd_store, _pfd_s
\* and pfd_correction are declared THREAD_LOCAL; the heap is the one of the
\* process.
Workers == {"w1", "w2"}
\* pfd_store_init calls a worker makes.
MaxWorkerCalls == 1
\* The rounds a worker measures: the accepted one and the one that fails the gate.
WorkerRounds == {r \in ScenarioRounds : \E i \in 1..Len(r) : r[i] # 0}

\* Lines 41-43: the value of a THREAD_LOCAL variable a thread sees when it is
\* given the processor: its own (mine), not the one the thread that ran
\* before it left (current).
SharedGlobals(mine, current) == current
ThreadLocal(mine, current) == mine

\* The thread-local variables and locals of the running worker.
Context ==
  [pc |-> pc, pfd_store |-> pfd_store, pfd_s |-> pfd_s,
   pfd_correction |-> pfd_correction, num_entries |-> num_entries,
   tries |-> tries, print_warning |-> print_warning, ad_avg |-> ad_avg,
   std_pp |-> std_pp, corrected_avg |-> corrected_avg, out |-> out,
   rounds |-> rounds, calls |-> calls, all_zero |-> all_zero, reads |-> reads]
\* Thread start: the thread-local pointers and pfd_correction are zero.
StartContext ==
  [pc |-> "idle", pfd_store |-> NULL, pfd_s |-> NULL, pfd_correction |-> 0,
   num_entries |-> 0, tries |-> 0, print_warning |-> 0, ad_avg |-> NaN,
   std_pp |-> [nan |-> TRUE, d |-> 0, s |-> 1], corrected_avg |-> NaN,
   out |-> << >>, rounds |-> 0, calls |-> 0, all_zero |-> TRUE, reads |-> << >>]
\* The context of worker w, running or not.
ContextOf(w) == IF w = self THEN Context ELSE ctx[w]

\* The scheduler gives the processor to worker w.
Switch(w) ==
  /\ self \in Workers
  /\ w # self
  /\ self' = w
  /\ ctx' = [ctx EXCEPT ![self] = Context, ![w] = StartContext]
  /\ pfd_store' = ThreadLocal(ctx[w].pfd_store, pfd_store)
  /\ pfd_s' = ThreadLocal(ctx[w].pfd_s, pfd_s)
  /\ pfd_correction' = ThreadLocal(ctx[w].pfd_correction, pfd_correction)
  /\ pc' = ctx[w].pc
  /\ num_entries' = ctx[w].num_entries
  /\ tries' = ctx[w].tries
  /\ print_warning' = ctx[w].print_warning
  /\ ad_avg' = ctx[w].ad_avg
  /\ std_pp' = ctx[w].std_pp
  /\ corrected_avg' = ctx[w].corrected_avg
  /\ out' = ctx[w].out
  /\ rounds' = ctx[w].rounds
  /\ calls' = ctx[w].calls
  /\ all_zero' = ctx[w].all_zero
  /\ reads' = ctx[w].reads
  /\ UNCHANGED <<heap, fn_vars, sw_vars>>

WorkersInit ==
  /\ IdleStore
  /\ NoFn
  /\ NoSweep
  /\ self \in Workers
  /\ ctx = [w \in Workers |-> StartContext]

WorkersNext ==
  \/ \E w \in Workers : Switch(w)
  \/ calls < MaxWorkerCalls /\ InitAlloc(ScenarioCap, 0)
  \/ \E samples \in WorkerRounds : MeasureRound(samples)
  \/ GateAccept
  \/ GateRetry
  \/ \E malloc_ok \in BOOLEAN : GateExhausted(malloc_ok)
  \/ Sanitize

SpecWorkers == WorkersInit /\ [][WorkersNext]_vars

\* ========================================================= the sweep scripts
\* src/run_cas_matrix.sh and its two later versions (src/unnamed/part_000,
\* src/unnamed/part_001): a prologue, then one benchmark invocation per
\* ordered pair of distinct cores, each producing one CSV row.  All three run
\* under `set -euo pipefail'.
Scripts == {"run_cas_matrix.sh", "part_000", "part_001"}

\* Largest CORE_COUNT the scripts are started with.
MaxCores == 3

\* A line of the benchmark's output that matches /Core [0-9]+ : avg/, as the
\* pair of fields awk prints for it ($3 and $6).
\* What an invocation printed (only those lines matter to the script).
Outputs ==
  {<< >>, <<<<"0", "41.0">>>>, <<<<"0", "41.0">>, <<"1", "57.5">>>>,
   <<<<"1", "57.5">>, <<"0", "41.0">>, <<"0", "41.0">>>>}
\* Exit statuses of `timeout ... $BIN ...': success, failure, timed out
\* (124), killed by a signal (128 + 9).
ExitStatuses == {0, 1, 124, 137}
SweepRuns == [status : ExitStatuses, output : Outputs]

\* The environment of a run.  The auto-rebuild inputs matter to part_001 only.
BuildEnvs ==
  [skip : {0, 1}, default_bin : BOOLEAN, makefile : BOOLEAN, have_make : BOOLEAN,
   make_q : {0, 1, 2}]
NoBuildEnv ==
  [skip |-> 0, default_bin |-> TRUE, makefile |-> FALSE, have_make |-> FALSE, make_q |-> 0]
SweepEnvs(script) ==
  {[cores |-> c, bin_exec |-> x, build |-> b] :
     c \in 0..MaxCores, x \in BOOLEAN,
     b \in IF script = "part_001" THEN BuildEnvs ELSE {NoBuildEnv}}

\* $? after `! cmd': the status of the negated pipeline, not of cmd.
NegatedStatus(st) == IF st = 0 THEN 1 ELSE 0

\* part_001 lines 24-38 (and 193-207): the auto-rebuild block.  made: whether
\* `make' ran; failed: whether it ran and failed (errexit ends the script).
\*   if ! make -q; then status=$?; if [[ $status -eq 1 ]] ... elif [[ $status -ne 0 ]] ...
AutoBuild(b, make_ok) ==
  IF b.skip = 0 /\ b.default_bin /\ b.makefile /\ b.have_make
    THEN IF NegatedStatus(b.make_q) = 0
           THEN LET status == NegatedStatus(b.make_q)
                    runs_make == status = 1 \/ status # 0
                IN  [made |-> runs_make, failed |-> runs_make /\ ~make_ok]
           ELSE [made |-> FALSE, failed |-> FALSE]
    ELSE [made |-> FALSE, failed |-> FALSE]

\* for ((src..)); for ((dst..)): the loop variables after the iteration at
\* <<src, dst>>; src = cores when the loops are over.
Advance(src, dst, cores) ==
  IF dst + 1 < cores THEN [src |-> src, dst |-> dst + 1]
  ELSE [src |-> src + 1, dst |-> 0]

\* reason="" / "timed out" / "failed (exit status N)".
Reason(status) ==
  IF status = 124 THEN "timed out" ELSE IF status # 0 THEN "failed" ELSE ""

\* The row and the standard-error message of an iteration whose invocation
\* the script survived (run_cas_matrix.sh lines 27-55, part_000 lines 40-84).
RowOf(src, dst, run) ==
  IF Len(run.output) < 2
    THEN [src |-> src, dst |-> dst, stats |-> << >>]
    ELSE [src |-> src, dst |-> dst, stats |-> run.output[1] \o run.output[2]]
LogOf(run) ==
  IF Len(run.output) < 2
    THEN IF Reason(run.status) # ""
           THEN <<[msg |-> "Run", reason |-> Reason(run.status), parsed |-> FALSE]>>
           ELSE <<[msg |-> "Unexpected output format", reason |-> "", parsed |-> FALSE]>>
    ELSE IF Reason(run.status) # ""
           THEN <<[msg |-> "Run", reason |-> Reason(run.status), parsed |-> TRUE]>>
           ELSE << >>

\* Whether the invocation ends the script: in run_cas_matrix.sh line 24 is a
\* plain assignment, output=$(timeout ...), whose status is that of the
\* command substitution, and errexit is on.  part_000 (line 34) and part_001
\* (line 67) run it as the condition of an if, where errexit does not apply.
ErrexitEnds(script, run) == script = "run_cas_matrix.sh" /\ run.status # 0

SweepInit ==
  /\ IdleStore
  /\ NoFn
  /\ OneWorker
  /\ sw_script \in Scripts
  /\ sw_env \in SweepEnvs(sw_script)
  /\ sw_pc = "start"
  /\ sw_src = 0 /\ sw_dst = 0
  /\ sw_run = NoRun /\ sw_row = NoRow /\ sw_nrows = 0 /\ sw_log = << >>
  /\ sw_made = 0 /\ sw_status = -1

\* The prologue: the CORE_COUNT check (part_000, part_001), the auto-rebuild
\* (part_001), the test [[ -x $BIN ]], the CSV header.  A successful make
\* leaves the binary executable.
SweepStart(make_ok) ==
  /\ sw_pc = "start"
  /\ LET checks_cores == sw_script # "run_cas_matrix.sh"
         b == IF sw_script = "part_001"
                THEN AutoBuild(sw_env.build, make_ok)
                ELSE [made |-> FALSE, failed |-> FALSE]
         exec == sw_env.bin_exec \/ (b.made /\ ~b.failed)
     IN  IF checks_cores /\ sw_env.cores < 2
           THEN /\ sw_pc' = "exit" /\ sw_status' = 1 /\ sw_made' = 0
         ELSE IF b.failed
           THEN /\ sw_pc' = "exit" /\ sw_status' = 2 /\ sw_made' = 1
         ELSE IF ~exec
           THEN /\ sw_pc' = "exit" /\ sw_status' = 1
                /\ sw_made' = IF b.made THEN 1 ELSE 0
         ELSE /\ sw_pc' = IF sw_env.cores = 0 THEN "end" ELSE "loop"
              /\ sw_status' = IF sw_env.cores = 0 THEN 0 ELSE -1
              /\ sw_made' = IF b.made THEN 1 ELSE 0
  /\ UNCHANGED <<sw_script, sw_env, sw_src, sw_dst, sw_run, sw_row, sw_nrows, sw_log>>
  /\ UNCHANGED <<store_vars, fn_vars, mt_vars>>

\* The loop variables move on; the script ends with status 0 after the last pair.
SweepAdvance ==
  LET a == Advance(sw_src, sw_dst, sw_env.cores)
  IN  /\ sw_src' = a.src
      /\ sw_dst' = a.dst
      /\ sw_pc' = IF a.src < sw_env.cores THEN "loop" ELSE "end"
      /\ sw_status' = IF a.src < sw_env.cores THEN -1 ELSE 0

\* if [[ $src -eq $dst ]]; then continue; fi
SweepSkip ==
  /\ sw_pc = "loop"
  /\ sw_src = sw_dst
  /\ SweepAdvance
  /\ UNCHANGED <<sw_script, sw_env, sw_run, sw_row, sw_nrows, sw_log, sw_made>>
  /\ UNCHANGED <<store_vars, fn_vars, mt_vars>>

\* One iteration for a pair of distinct cores: the invocation, the parsing,
\* the message and the row.
SweepInvoke(run) ==
  /\ sw_pc = "loop"
  /\ sw_src # sw_dst
  /\ sw_run' = run
  /\ IF ErrexitEnds(sw_script, run)
       THEN /\ sw_pc' = "exit"
            /\ sw_status' = run.status
            /\ UNCHANGED <<sw_src, sw_dst, sw_row, sw_nrows, sw_log>>
       ELSE /\ sw_row' = RowOf(sw_src, sw_dst, run)
            /\ sw_nrows' = sw_nrows + 1
            /\ sw_log' = LogOf(run)
            /\ SweepAdvance
  /\ UNCHANGED <<sw_script, sw_env, sw_made>>
  /\ UNCHANGED <<store_vars, fn_vars, mt_vars>>

SweepNext ==
  \/ \E make_ok \in BOOLEAN : SweepStart(make_ok)
  \/ SweepSkip
  \/ \E run \in SweepRuns : SweepInvoke(run)

SpecSweep == SweepInit /\ [][SweepNext]_vars

\* ================================================================== claims
DblEq(x, y) == x.nan = y.nan /\ (~x.nan => x.num * y.den = y.num * x.den)
OutOfRange(v) == v > PFD_VAL_UP_LIMIT \/ v >= INT64_SIGN

\* C4: after get_abs_deviation each of the first count entries is unchanged
\* or 0; an entry is changed only if its original value was above 1500 or
\* negative as int64_t, and every entry with such a value is 0 afterwards.
C4_ClipOnlyOutOfRange ==
  fn_pc = "analyzed" =>
    \A i \in 1..fn_count :
      /\ fn_vals[i] = fn_in[i] \/ fn_vals[i] = 0
      /\ fn_vals[i] # fn_in[i] => OutOfRange(fn_in[i])
      /\ OutOfRange(fn_in[i]) => fn_vals[i] = 0

\* An analysed array holding the limit itself (kept), the value just above
\* it (zeroed) and a negative value (zeroed).
C4_Witness ==
  /\ fn_pc = "analyzed"
  /\ fn_count = 3
  /\ fn_in = <<PFD_VAL_UP_LIMIT, PFD_VAL_UP_LIMIT + 1, UINT64_MAX>>
  /\ fn_vals = <<PFD_VAL_UP_LIMIT, 0, 0>>

\* C5: the five band counts add up to count: every sample is in exactly one band.
C5_BandsPartition ==
  fn_pc = "analyzed" =>
    fn_ad.num_dev_10p + fn_ad.num_dev_25p + fn_ad.num_dev_50p
      + fn_ad.num_dev_75p + fn_ad.num_dev_rst = fn_count

\* An analysed array with a clipped sample whose samples fall in more than
\* one band, the last one among them.
C5_Witness ==
  /\ fn_pc = "analyzed"
  /\ fn_count = 3
  /\ \E i \in 1..fn_count : fn_vals[i] # fn_in[i]
  /\ fn_ad.num_dev_rst > 0 /\ fn_ad.num_dev_rst < fn_count

\* C6 (as claimed): for a non-empty array vals[min_val_idx] = min_val and
\* vals[max_val_idx] = max_val on the clipped array, and max_val_idx = 0 when
\* all values are equal.
C6_ExtremesPointAtValues ==
  (fn_pc = "analyzed" /\ fn_count >= 1) =>
    /\ fn_vals[fn_ad.min_val_idx + 1] = fn_ad.min_val
    /\ fn_vals[fn_ad.max_val_idx + 1] = fn_ad.max_val
    /\ (\A i \in 1..fn_count : fn_vals[i] = fn_vals[1]) => fn_ad.max_val_idx = 0

\* The non-zero entries among the first n, and the k-th smallest of them,
\* stated without sorting.
NonZeroAt(s, n) == {i \in 1..n : s[i] # 0}
KthNonZero(s, n, k) ==
  CHOOSE v \in {s[i] : i \in NonZeroAt(s, n)} :
    /\ Cardinality({i \in NonZeroAt(s, n) : s[i] < v}) < k
    /\ Cardinality({i \in NonZeroAt(s, n) : s[i] <= v}) >= k
LowerMiddle(s, n) == KthNonZero(s, n, (Cardinality(NonZeroAt(s, n)) + 1) \div 2)
UpperMiddle(s, n) == KthNonZero(s, n, Cardinality(NonZeroAt(s, n)) \div 2 + 1)

\* C7 (as claimed): the result is the median of the non-zero entries among
\* the first n, NaN when there is none, and the input array is unchanged.
C7_MedianExact ==
  fn_pc = "median" =>
    /\ fn_vals = fn_in
    /\ IF NonZeroAt(fn_in, fn_count) = {}
         THEN fn_med.nan
         ELSE DblEq(fn_med, Dbl(LowerMiddle(fn_in, fn_count)
                                + UpperMiddle(fn_in, fn_count), 2))

\* C7 (amended): NaN when n = 0, when every entry is zero or when the scratch
\* allocation fails; otherwise the median of the non-zero entries as double
\* arithmetic yields it: each middle entry converted to double, the sum of
\* the two middle ones rounded to a double before it is halved.  That is the
\* exact median whenever the middle entries are below 2^(DBL_MANT_DIG - 1).
\* The input array is unchanged.
C7_MedianAsDouble ==
  fn_pc = "median" =>
    /\ fn_vals = fn_in
    /\ IF NonZeroAt(fn_in, fn_count) = {} \/ ~fn_malloc_ok
         THEN fn_med.nan
         ELSE LET lo == LowerMiddle(fn_in, fn_count)
                  hi == UpperMiddle(fn_in, fn_count)
              IN  /\ DblEq(fn_med,
                           IF lo = hi /\ Cardinality(NonZeroAt(fn_in, fn_count)) % 2 = 1
                             THEN Dbl(RoundToDouble(lo), 1)
                             ELSE Dbl(RoundToDouble(RoundToDouble(lo) + RoundToDouble(hi)), 2))
                  /\ hi < 2^(DBL_MANT_DIG - 1) => DblEq(fn_med, Dbl(lo + hi, 2))

\* The example of the specification: [0,0,5,0,3] gives 4.0.
C7_Witness ==
  /\ fn_pc = "median"
  /\ fn_in = MedianExample
  /\ fn_count = 5
  /\ fn_malloc_ok
  /\ DblEq(fn_med, Dbl(4, 1))

\* ------------------------------------------------- claims on pfd_store_init
InCall == pc \in {"retry", "measured", "sanitize"}
Printed(msg) == \E i \in 1..Len(out) : out[i].msg = msg
Warnings == {i \in 1..Len(out) : out[i].warning}

\* C1: after every completed pfd_store_init pfd_correction > 0, and the
\* assert (pfd_correction > 0) at its end never fails.
C1_CorrectionPositive ==
  /\ pc # "abort_correction"
  /\ pc = "done" => pfd_correction > 0

\* A repeated call whose samples were all 0 and whose direct measurement saw
\* the counter stand still: the conservative constant.
C1_Witness ==
  /\ pc = "done"
  /\ calls = 2
  /\ num_entries >= 1
  /\ all_zero
  /\ reads = [i \in 1..DELTA_ATTEMPTS |-> <<3, 3>>]
  /\ pfd_correction = PFD_CONSERVATIVE_DEFAULT

\* The deltas of the call's direct measurement that can become best.
UsableDeltas ==
  {TickDelta(reads[i][1], reads[i][2]) : i \in 1..Len(reads)} \ {0, UINT64_MAX}
SmallestUsableDelta == CHOOSE d \in UsableDeltas : \A e \in UsableDeltas : d <= e

C3_ScenarioAccepted ==
  /\ [][(pc = "measured" /\ rounds = 1 /\ Slot0Vals = C3Samples)
          => (pc' = "sanitize" /\ rounds' = 1 /\ out' = << >>)]_vars
  /\ []((pc \in {"sanitize", "done"} /\ rounds = 1 /\ Slot0Vals = C3Samples)
          => (Warnings = {} /\ (pc = "done" => pfd_correction = 20)))

C3_Witness ==
  /\ pc = "done"
  /\ num_entries = 10
  /\ rounds = 1
  /\ Slot0Vals = C3Samples
  /\ Warnings = {}
  /\ pfd_correction = 20

\* C8: once a call has allocated its store, the live blocks are exactly the
\* slot-pointer table, the start-tick array and PFD_NUM_STORES slot arrays of
\* the capacity of this call; every other block ever allocated has been
\* released exactly once, and no block more than once.
LiveBlocks == {b \in 1..Len(heap) : heap[b].frees = 0}
C8_StoreOwnsItsBlocks ==
  (InCall \/ pc = "done") =>
    LET slots == {heap[pfd_store].cells[i] : i \in 1..PFD_NUM_STORES}
    IN  /\ pfd_store # NULL /\ pfd_s # NULL
        /\ LiveBlocks = {pfd_store, pfd_s} \cup slots
        /\ Cardinality(LiveBlocks) = 2 + PFD_NUM_STORES
        /\ heap[pfd_store].kind = "table" /\ heap[pfd_store].size = PFD_NUM_STORES
        /\ heap[pfd_s].kind = "start_ticks" /\ heap[pfd_s].size = PFD_NUM_STORES
        /\ \A b \in slots : heap[b].kind = "slot" /\ heap[b].size = num_entries
        /\ \A b \in 1..Len(heap) : b \notin LiveBlocks => heap[b].frees = 1

\* After a second call: the first call's table, start-tick array and slots
\* are among the released blocks.
C8_Witness ==
  /\ pc = "done"
  /\ calls = 2
  /\ num_entries = ScenarioCap
  /\ Cardinality({b \in 1..Len(heap) : heap[b].frees = 1 /\ heap[b].kind = "slot"})
       = PFD_NUM_STORES
  /\ \E b \in 1..Len(heap) : heap[b].frees = 1 /\ heap[b].kind = "table"
  /\ \E b \in 1..Len(heap) : heap[b].frees = 1 /\ heap[b].kind = "start_ticks"

\* C9: at most INITIAL_TRIES retries, so at most INITIAL_TRIES + 1 rounds; a
\* retry starts only after a round whose std_pp is defined and > 3; and a
\* call that started measuring (its allocations succeeded, lines 152-162)
\* reaches the summary line.
C9_BoundedRetries ==
  /\ [](rounds <= INITIAL_TRIES + 1)
  /\ []((pc = "retry" /\ rounds >= 1) =>
          (~std_pp.nan /\ std_pp.d > (9 * std_pp.s * std_pp.s) \div 10000))
  /\ (pc = "retry") ~> (pc = "done" /\ out[Len(out)].msg = "set pfd correction")

\* A call that measured all 11 rounds and fell back to the median.
C9_Witness ==
  /\ pc = "done"
  /\ rounds = INITIAL_TRIES + 1
  /\ tries = -1
  /\ Printed("using median")

\* The value a diagnostic names, as the conversion to ticks sees it.
NamedCorrection(line) ==
  ToCorrection(IF line.val.den = 1 THEN TicksToDouble(line.val.num) ELSE line.val).correction

\* C10 (as claimed): every warning that names a substituted value names the
\* one pfd_correction was set from; in particular "using conservative default
\* of 32" is printed only when 32 is the value used.
C10_WarningsNameAppliedValue ==
  pc = "done" =>
    \A i \in Warnings :
      ~out[i].val.nan => NamedCorrection(out[i]) = pfd_correction

\* ------------------------------------------------ claims on the sweep scripts
\* C11 (as claimed): in run_cas_matrix.sh and part_000 an invocation that
\* exits non-zero, times out or prints fewer than two statistics lines does
\* not end the script: the problem is logged, a row is written for the pair
\* (with empty statistics when fewer than two lines were parsed), and the
\* loop goes on until every ordered pair of distinct cores has a row.
C11_FailedRunIsNonFatal ==
  sw_script \in {"run_cas_matrix.sh", "part_000"} =>
    /\ sw_pc = "exit" => sw_run = NoRun
    /\ (sw_run # NoRun /\ (sw_run.status # 0 \/ Len(sw_run.output) < 2)) =>
         /\ sw_log # << >>
         /\ sw_nrows >= 1
         /\ Len(sw_run.output) < 2 => sw_row.stats = << >>
    /\ sw_pc = "end" => sw_nrows = sw_env.cores * (sw_env.cores - 1)

\* ------------------------------------------------ claims on several workers
\* The blocks of heap h a worker with context c holds: its start-tick array,
\* its slot table and the slot arrays the table points to.
OwnedBy(c, h) ==
  {b \in {c.pfd_s, c.pfd_store} : b # NULL}
    \cup (IF c.pfd_store = NULL THEN {}
          ELSE {h[c.pfd_store].cells[k] : k \in DOMAIN h[c.pfd_store].cells}
                 \ {NULL, UNINIT})
\* No block belongs to two workers.
OwnStores ==
  \A v, w \in Workers :
    v # w => OwnedBy(ContextOf(v), heap) \cap OwnedBy(ContextOf(w), heap) = {}
\* A step of the running worker leaves the blocks, thread-local variables and
\* locals of every other worker as they were.
StepSparesOthers ==
  self' = self =>
    \A w \in Workers \ {self} :
      /\ ctx'[w] = ctx[w]
      /\ \A b \in OwnedBy(ctx[w], heap) : heap'[b] = heap[b]
\* A worker whose call returned on an accepted round holds the correction
\* and summary pfd_store_init computes from the samples in its own slot 0.
AsIfAlone ==
  \A w \in Workers :
    LET c == ContextOf(w)
        own == heap[heap[c.pfd_store].cells[1]].cells
    IN  (c.pc = "done" /\ \A i \in 1..Len(c.out) : c.out[i].msg # "setting manually") =>
          \E r \in {Calibrate(get_abs_deviation(own, c.num_entries).ad.avg, c.reads, << >>)} :
            /\ c.pfd_correction = r.pfd_correction
            /\ c.corrected_avg = r.corrected_avg
            /\ c.out[Len(c.out)] = Line("set pfd correction", FALSE, Dbl(r.pfd_correction, 1))

\* C12: with several workers running pfd_store_init, recording and analysis
\* in any interleaving, no step of one worker changes another worker's slots,
\* start-tick array, pfd_correction or locals, no block is held by two
\* workers, and each worker's correction and summary are those computed from
\* its own samples.
C12_WorkersIsolated ==
  [](OwnStores /\ AsIfAlone) /\ [][StepSparesOthers]_vars

\* Both workers have returned from interleaved calls: w1 on its first round,
\* w2 after using up its retries.
C12_Witness ==
  /\ self = "w2" /\ pc = "done" /\ rounds = INITIAL_TRIES + 1
  /\ ctx["w1"].pc = "done" /\ ctx["w1"].rounds = 1
  /\ ctx["w1"].pfd_store > pfd_store

\* ------------------------------------------- claims on get_abs_deviation
\* The sum of the first n entries of s, an entry that is above the limit or
\* negative as int64_t counting as 0.
RECURSIVE KeptTotal(_, _)
KeptTotal(s, n) ==
  IF n = 0 THEN 0
  ELSE KeptTotal(s, n - 1) + (IF OutOfRange(s[n]) THEN 0 ELSE s[n])
Clipped(s, n) == {i \in 1..n : OutOfRange(s[i])}

\* C13: get_abs_deviation reports num_vals equal to the count it was given,
\* however many samples were clipped, and avg is the sum of the samples after
\* clipping (a clipped sample contributing 0) divided by that count; for
\* count 0 the quotient 0/0 is NaN.
C13_AvgOverGivenCount ==
  fn_pc = "analyzed" =>
    /\ fn_ad.num_vals = fn_count
    /\ IF fn_count = 0
         THEN fn_ad.avg.nan
         ELSE /\ ~fn_ad.avg.nan
              /\ fn_ad.avg.num * fn_count = KeptTotal(fn_in, fn_count) * fn_ad.avg.den

\* Two of three samples were clipped: the average is a third of the one kept.
C13_Witness ==
  /\ fn_pc = "analyzed"
  /\ fn_count = 3
  /\ Cardinality(Clipped(fn_in, fn_count)) = 2
  /\ fn_ad.num_vals = 3
  /\ DblEq(fn_ad.avg, Dbl(1, 1))

\* The running maximum before sample i (1-based) of s, which starts at 0, the
\* samples that raise it, and the other samples among the first n.
MaxOf(S) == CHOOSE v \in S : \A u \in S : u <= v
MinOf(S) == CHOOSE v \in S : \A u \in S : v <= u
RunningMax(s, i) == MaxOf({0} \cup {s[j] : j \in 1..(i - 1)})
Raisers(s, n) == {i \in 1..n : s[i] > RunningMax(s, i)}
NonRaisers(s, n) == (1..n) \ Raisers(s, n)

\* C14: the extremes are tracked in one pass over the clipped samples from
\* max = 0 and min = DBL_MAX, a sample replacing max when it is strictly
\* greater than the running max and otherwise min when it is strictly less
\* than the running min.  Hence max_val is the maximum (0 when no sample is
\* positive) at its first index, and min_val is the smallest of the samples
\* that did not raise the running max, at its first index among them; it is
\* the sentinel with min_val_idx = 0 when every sample raised the max.
C14_ExtremesOnePass ==
  fn_pc = "analyzed" =>
    LET top == RunningMax(fn_vals, fn_count + 1)
        rest == NonRaisers(fn_vals, fn_count)
    IN  /\ fn_ad.max_val = top
        /\ fn_ad.max_val_idx =
             (IF top = 0 THEN 0
              ELSE MinOf({i \in 1..fn_count : fn_vals[i] = top}) - 1)
        /\ IF rest = {}
             THEN fn_ad.min_val = DBL_MAX /\ fn_ad.min_val_idx = 0
             ELSE LET low == MinOf({fn_vals[i] : i \in rest})
                  IN  /\ fn_ad.min_val = low
                      /\ fn_ad.min_val_idx = MinOf({i \in rest : fn_vals[i] = low}) - 1

\* The first sample raised the max and is the true minimum: min_val is the
\* smaller of the two that did not.
C14_Witness ==
  /\ fn_pc = "analyzed"
  /\ fn_count = 3
  /\ fn_in = <<1, 3, 2>>
  /\ fn_ad.max_val = 3 /\ fn_ad.max_val_idx = 1
  /\ fn_ad.min_val = 2 /\ fn_ad.min_val_idx = 2

\* ------------------------------------------ claims on the fallback chain
\* The strictly positive deltas of the call's direct measurement.
PositiveDeltas ==
  {TickDelta(reads[i][1], reads[i][2]) : i \in 1..Len(reads)} \ {0}
\* The direct measurement ran in the call that has returned.
DirectDeltaUsed == pc = "done" /\ reads # << >>

\* C15 (as claimed): when the average is finite and <= 0, 64 deltas are
\* measured and pfd_correction is the smallest strictly positive one, or 32
\* when none is positive; measure_minimum_tick_delta returns 0 exactly when
\* no delta was positive.
C15_SmallestPositiveDelta ==
  DirectDeltaUsed =>
    /\ Len(reads) = DELTA_ATTEMPTS
    /\ pfd_correction =
         IF PositiveDeltas = {} THEN PFD_CONSERVATIVE_DEFAULT ELSE MinOf(PositiveDeltas)
    /\ measure_minimum_tick_delta(reads, Len(reads)) = 0 <=> PositiveDeltas = {}

\* C15 (amended): a delta of UINT64_MAX (the counter read one tick lower the
\* second time) never replaces best, which starts at UINT64_MAX.  When the
\* average is finite and <= 0, 64 deltas are measured and pfd_correction is
\* the smallest delta in 1..UINT64_MAX-1 after its conversion to double and
\* back (UINT64_MAX once the double reaches 2^64), or 32 when there is no
\* such delta; measure_minimum_tick_delta returns 0 exactly when there is none.
C15_SmallestDeltaBelowMax ==
  DirectDeltaUsed =>
    /\ Len(reads) = DELTA_ATTEMPTS
    /\ Printed("<= 0; direct rdtsc delta") <=> UsableDeltas # {}
    /\ pfd_correction =
         IF UsableDeltas = {} THEN PFD_CONSERVATIVE_DEFAULT
         ELSE ToCorrection(TicksToDouble(MinOf(UsableDeltas))).correction
    /\ measure_minimum_tick_delta(reads, Len(reads)) = 0 <=> UsableDeltas = {}

\* The only sample of the round was clipped (average 0); the counter advanced
\* by 1 and by 7 in the direct measurement: correction 1.
C15_Witness ==
  /\ DirectDeltaUsed
  /\ ~all_zero
  /\ UsableDeltas = {1, 7}
  /\ pfd_correction = 1

\* The call has returned after its retries were used up.
RetriesExhausted == pc = "done" /\ Printed("setting manually")
\* floor(m + 0.5) for m the median of the non-zero samples among the first n
\* of s: m is the mean of the two middle ones.
RoundedMedian(s, n) == (LowerMiddle(s, n) + UpperMiddle(s, n) + 1) \div 2
\* The scratch array of median_non_zero_ticks was the last block allocated.
ScratchAllocated == heap # << >> /\ heap[Len(heap)].kind = "scratch"

\* C16 (as claimed): when all 11 rounds fail the gate, pfd_correction is
\* floor(m + 0.5) for m the median of the non-zero samples of the last round
\* after clipping, whatever the earlier rounds held.
C16_MedianOfLastRound ==
  RetriesExhausted =>
    /\ rounds = INITIAL_TRIES + 1
    /\ NonZeroAt(Slot0Vals, num_entries) # {}
    /\ pfd_correction = RoundedMedian(Slot0Vals, num_entries)

\* C16 (amended): the same when the scratch array of the median helper could
\* be allocated; when that malloc returns NULL the median is NaN and
\* pfd_correction is the constant of the architecture (32, none being
\* defined).  In both cases only the last round is consulted.
C16_MedianUnlessNoScratch ==
  RetriesExhausted =>
    /\ rounds = INITIAL_TRIES + 1
    /\ NonZeroAt(Slot0Vals, num_entries) # {}
    /\ \A i \in 1..num_entries : ~OutOfRange(Slot0Vals[i])
    /\ IF ScratchAllocated
         THEN /\ Printed("using median") /\ ~Printed("unknown architecture")
              /\ pfd_correction = RoundedMedian(Slot0Vals, num_entries)
         ELSE /\ Printed("unknown architecture") /\ ~Printed("using median")
              /\ pfd_correction = PFD_CONSERVATIVE_DEFAULT

\* The eleventh round had two samples clipped and the middle ones of the
\* other eight are 20 and 21: correction 21.
C16_Witness ==
  /\ RetriesExhausted
  /\ ScratchAllocated
  /\ Cardinality(NonZeroAt(Slot0Vals, num_entries)) = 8
  /\ LowerMiddle(Slot0Vals, num_entries) = 20
  /\ UpperMiddle(Slot0Vals, num_entries) = 21
  /\ pfd_correction = 21

\* C17: a round fails the gate only when its average is not 0, so a rejected
\* round holds a non-zero sample, all samples being in range after the
\* clipping.  When the retries are used up the median of the last round is
\* therefore defined and positive, and unless the scratch array of the
\* median helper could not be allocated the constant of the architecture is
\* not taken.
C17_MedianDefinedOnExhaustion ==
  /\ (pc = "retry" /\ rounds > 0) => NonZeroAt(Slot0Vals, num_entries) # {}
  /\ Printed("setting manually") =>
       /\ NonZeroAt(Slot0Vals, num_entries) # {}
       /\ \A i \in 1..num_entries : ~OutOfRange(Slot0Vals[i])
       /\ LowerMiddle(Slot0Vals, num_entries) > 0
       /\ ScratchAllocated =>
            /\ ~Printed("unknown architecture")
            /\ \E i \in 1..Len(out) :
                 /\ out[i].msg = "using median"
                 /\ isfinite(out[i].val) /\ ~DblLeZero(out[i].val)

\* The retries were used up on rounds of one sample of 1000 among 20s: the
\* median 20 is used, not the constant.
C17_Witness ==
  /\ pc = "sanitize"
  /\ Printed("setting manually") /\ Printed("using median")
  /\ tries = -1
  /\ Slot0Vals[1] = 1000
  /\ DblEq(ad_avg, Dbl(20, 1))

\* ----------------------------------------------- claims on the auto-rebuild
\* part_001 has passed its prologue with the auto-rebuild enabled: the
\* benchmark invocations are about to start or have started.
RebuildApplies ==
  /\ sw_script = "part_001"
  /\ sw_pc \in {"loop", "end"}
  /\ sw_env.build.skip = 0 /\ sw_env.build.default_bin
  /\ sw_env.build.makefile /\ sw_env.build.have_make

\* C18 (as claimed): with SKIP_AUTO_BUILD unset or 0, BIN the default, a
\* Makefile present and make available, part_001 has run `make' before its
\* first benchmark invocation when `make -q' exited with status 1, and has
\* not run it when `make -q' exited with status 0.
C18_RebuildsWhenOutOfDate ==
  RebuildApplies =>
    /\ sw_env.build.make_q = 1 => sw_made >= 1
    /\ sw_env.build.make_q = 0 => sw_made = 0
====
